---------------------------- MODULE Spec2Model ----------------------------
(***************************************************************************)
(* A model of the chat channel (ChatChannel, its message processor) and    *)
(* of the connection relay (WebSocketRelay) of ws-server-render.           *)
(*                                                                         *)
(* JavaScript values are modelled as tagged records [t |-> typeof, v |->   *)
(* value].  Strings that the code measures, slices or lower-cases (names,  *)
(* texts, recipients) are sequences of string chunks, one chunk per        *)
(* character wherever the characters matter; strings that the code only    *)
(* compares with literals (request, _event, _set) are atomic.  An object   *)
(* is a function from its keys to values, so `k in m` is k \in DOMAIN m.   *)
(***************************************************************************)
EXTENDS Integers, Sequences, FiniteSets, TLC

(***************************************************************************)
(* Bounds of the model.                                                    *)
(***************************************************************************)
\* Number of transport connections the server ever accepts.
MaxConn == 2
\* Number of timestamps assigned beyond a 100 ms tick value before the
\* model stops taking new events in that tick.
MaxBurst == 4
\* Number of serial numbers used before the model stops taking new events.
MaxSerial == 5
\* Largest configured history cap (MAX_HISTORY) the model starts with.
MaxCap == 2
\* Number of entries of the animal and adjective lists Math.random reaches.
MaxRand == 1
\* Number of ChatChannel objects and of WebSocketRelay objects constructed
\* when the wiring of channels and relays is explored.
MaxChannels == 3
MaxRelays == 3

(***************************************************************************)
(* JavaScript values.                                                      *)
(***************************************************************************)
Str(s) == [t |-> "string", v |-> s]
Num(n) == [t |-> "number", v |-> n]
Bool(b) == [t |-> "boolean", v |-> b]
Obj(f) == [t |-> "object", v |-> f]
Arr(s) == [t |-> "array", v |-> s]
Null == [t |-> "null"]
Undefined == [t |-> "undefined"]

\* typeof x
TypeOf(x) == IF x.t \in {"object", "array", "null"} THEN "object" ELSE x.t

\* The empty object, and an object given as a TLA+ record.
Empty == [k \in {} |-> Null]

\* m[k], which is undefined when the key is absent.
Get(m, k) == IF k \in DOMAIN m THEN m[k] ELSE Undefined

\* m[k] = x
Put(m, k, x) == [j \in DOMAIN m \cup {k} |-> IF j = k THEN x ELSE m[j]]

\* delete m[k]
Del(m, k) == [j \in DOMAIN m \ {k} |-> m[j]]

\* a ?? b
Coalesce(a, b) == IF a.t \in {"null", "undefined"} THEN b ELSE a

(***************************************************************************)
(* Strings.                                                                *)
(***************************************************************************)
LowerChar(c) ==
    CASE c = "A" -> "a" [] c = "B" -> "b" [] c = "C" -> "c" [] c = "D" -> "d"
      [] c = "E" -> "e" [] c = "F" -> "f" [] c = "G" -> "g" [] c = "H" -> "h"
      [] c = "I" -> "i" [] c = "J" -> "j" [] c = "K" -> "k" [] c = "L" -> "l"
      [] c = "M" -> "m" [] c = "N" -> "n" [] c = "O" -> "o" [] c = "P" -> "p"
      [] c = "Q" -> "q" [] c = "R" -> "r" [] c = "S" -> "s" [] c = "T" -> "t"
      [] c = "U" -> "u" [] c = "V" -> "v" [] c = "W" -> "w" [] c = "X" -> "x"
      [] c = "Y" -> "y" [] c = "Z" -> "z" [] OTHER -> c

\* String.prototype.toLowerCase
toLowerCase(s) == [i \in DOMAIN s |-> LowerChar(s[i])]

\* String.prototype.slice(0, n) for n >= 0
slice(s, n) == SubSeq(s, 1, IF n < Len(s) THEN n ELSE Len(s))

\* String(n) for a number n >= 0, one chunk per digit
RECURSIVE NumStringOf(_)
NumStringOf(n) ==
    LET d == <<"0", "1", "2", "3", "4", "5", "6", "7", "8", "9">>[(n % 10) + 1]
    IN  IF n < 10 THEN <<d>> ELSE Append(NumStringOf(n \div 10), d)


(***************************************************************************)
(* Map: the entries [k, x] in insertion order (the order Map.values()      *)
(* iterates in); set() of a key already held keeps the key's position.     *)
(***************************************************************************)
EmptyMap == <<>>
MapKeys(map) == {map[i].k : i \in DOMAIN map}
MapHas(map, k) == k \in MapKeys(map)
MapGet(map, k) ==
    IF k \in MapKeys(map)
    THEN map[CHOOSE i \in DOMAIN map : map[i].k = k].x
    ELSE Undefined
MapSet(map, k, x) ==
    IF k \in MapKeys(map)
    THEN [i \in DOMAIN map |-> IF map[i].k = k THEN [k |-> k, x |-> x] ELSE map[i]]
    ELSE Append(map, [k |-> k, x |-> x])
MapDelete(map, k) == SelectSeq(map, LAMBDA e : e.k # k)
MapValues(map) == [i \in DOMAIN map |-> map[i].x]
MapSize(map) == Len(map)

(***************************************************************************)
(* The state the handlers work on.  A handler is a function of this        *)
(* record; `err` says that an exception has been thrown and is             *)
(* propagating to the caller, `now` holds the coming readings of           *)
(* Date.now() (the last one repeats) and `random` the coming draws of      *)
(* Math.random.                                                            *)
(*   users          ChatChannel.users (three Maps)                         *)
(*   lastSerial, lastTimestamp, maxHistory, history   ChatChannel fields   *)
(*   sockets        WebSocketRelay.sockets, the ids in insertion order     *)
(*   socketInfo     WebSocketRelay.socketInfo                              *)
(*   sent           the calls s.send(json), in order                       *)
(* and three history variables of the run:                                 *)
(*   handed         the messages given to WebSocketRelay.broadcast         *)
(*   entered        the messages the relay gave to ChatChannel.receive     *)
(*   identified     the senders whose identify request reached its stage   *)
(***************************************************************************)
Throw(S) == [S EXCEPT !.err = TRUE]

\* Date.now()
DateNow(S) == Head(S.now)
AfterDateNow(S) == IF Len(S.now) > 1 THEN [S EXCEPT !.now = Tail(S.now)] ELSE S

(***************************************************************************)
(* ChatUser and the user registry of ChatChannel.                          *)
(***************************************************************************)
\* new ChatUser(properties): the fields of the new object
ChatUser(properties, random) ==
    [ socketId  |-> Coalesce(Get(properties, "socketId"), Null),
      sessionId |-> Coalesce(Get(properties, "sessionId"), Null),
      name      |-> IF TypeOf(Get(properties, "name")) = "string"
                    THEN properties.name
                    ELSE Str(<<"Default-">> \o NumStringOf(random.dflt)) ]

\* get lowerCaseName ()
lowerCaseName(u) == Str(toLowerCase(u.name.v))

\* A value is truthy.
Truthy(x) ==
    CASE x.t \in {"null", "undefined"} -> FALSE
      [] x.t = "string" -> x.v # <<>>
      [] x.t = "number" -> x.v # 0
      [] x.t = "boolean" -> x.v
      [] OTHER -> TRUE

\* Whether getUser(trait) throws: toLowerCase of something that is no string.
getUserThrows(trait) ==
    "name" \in DOMAIN trait /\ TypeOf(trait.name) # "string"

\* getUser(trait), when it does not throw: Obj(user) or undefined (or null)
getUser(S, trait) ==
    IF "name" \in DOMAIN trait
    THEN MapGet(S.users.lowerCaseNames, Str(toLowerCase(trait.name.v)))
    ELSE IF "sessionId" \in DOMAIN trait
    THEN MapGet(S.users.sessions, trait.sessionId)
    ELSE IF "socketId" \in DOMAIN trait
    THEN MapGet(S.users.sockets, trait.socketId)
    ELSE Null

\* createUser(properties)
createUser(S, properties) ==
    IF S.err THEN S
    ELSE IF TypeOf(Get(properties, "name")) # "string" THEN Throw(S)
    ELSE IF MapHas(S.users.lowerCaseNames, Str(toLowerCase(properties.name.v)))
    THEN Throw(S)
    ELSE IF MapHas(S.users.sessions, Get(properties, "sessionId")) THEN Throw(S)
    ELSE IF MapHas(S.users.sockets, Get(properties, "socketId")) THEN Throw(S)
    ELSE LET u == ChatUser(properties, S.random)
         IN  [S EXCEPT
                !.users.lowerCaseNames = MapSet(@, lowerCaseName(u), Obj(u)),
                !.users.sessions = MapSet(@, u.sessionId, Obj(u)),
                !.users.sockets = MapSet(@, u.socketId, Obj(u))]

\* deleteUser(trait)
deleteUser(S, trait) ==
    IF S.err THEN S
    ELSE IF getUserThrows(trait) THEN Throw(S)
    ELSE LET u == getUser(S, trait)
         IN  IF Truthy(u)
             THEN [S EXCEPT
                     !.users.lowerCaseNames = MapDelete(@, lowerCaseName(u.v)),
                     !.users.sessions = MapDelete(@, u.v.sessionId),
                     !.users.sockets = MapDelete(@, u.v.socketId)]
             ELSE S

\* Object.assign(u, what): the fields of u afterwards
ObjectAssign(u, what) ==
    [k \in DOMAIN u \cup DOMAIN what |-> IF k \in DOMAIN what THEN what[k] ELSE u[k]]

\* updateUser that deletes the user and does not create it again.
updateUserDeleteOnly(S, who, what) ==
    IF S.err THEN S
    ELSE IF getUserThrows(who) THEN Throw(S)
    ELSE deleteUser(S, who)

\* updateUser(who, what)
updateUser(S, who, what) ==
    IF S.err THEN S
    ELSE IF getUserThrows(who) THEN Throw(S)
    ELSE LET u == getUser(S, who)
         IN  IF Truthy(u)
             THEN createUser(deleteUser(S, u.v), ObjectAssign(u.v, what))
             ELSE S

(***************************************************************************)
(* generateRandomName.  The draws of Math.random are S.random.animal and   *)
(* S.random.adjective, as 1-based indexes into the lists.                  *)
(***************************************************************************)
adjectives ==
    << <<"P", "e", "r", "s", "n", "i", "c", "k", "e", "t", "y">>,
       <<"S", "p", "e", "c", "t", "a", "c", "u", "l", "a", "r">>,
       <<"W", "i", "n", "s", "o", "m", "e">>,
       <<"B", "e", "g", "u", "i", "l", "i", "n", "g">>,
       <<"G", "r", "e", "g", "a", "r", "i", "o", "u", "s">>,
       <<"M", "o", "d", "e", "s", "t">>,
       <<"V", "a", "p", "o", "r", "o", "u", "s">>,
       <<"H", "a", "r", "m", "o", "n", "i", "o", "u", "s">>,
       <<"A", "d", "a", "m", "a", "n", "t">>,
       <<"A", "d", "r", "o", "i", "t">>,
       <<"F", "r", "o", "l", "i", "c", "s", "o", "m", "e">>,
       <<"M", "u", "n", "i", "f", "i", "c", "e", "n", "t">>,
       <<"V", "o", "l", "u", "b", "l", "e">> >>

animals ==
    << <<"A", "a", "r", "d", "v", "a", "r", "k">>,
       <<"A", "n", "t", "e", "a", "t", "e", "r">>,
       <<"A", "r", "m", "a", "d", "i", "l", "l", "o">>,
       <<"B", "a", "d", "g", "e", "r">>,
       <<"C", "o", "a", "t", "i", "m", "u", "n", "d", "i">>,
       <<"C", "o", "r", "m", "o", "r", "a", "n", "t">>,
       <<"O", "c", "t", "o", "p", "u", "s">>,
       <<"C", "r", "o", "c", "o", "d", "i", "l", "e">>,
       <<"G", "e", "c", "k", "o">>,
       <<"P", "a", "r", "a", "k", "e", "e", "t">>,
       <<"S", "h", "a", "r", "k">>,
       <<"S", "t", "o", "r", "k">>,
       <<"T", "o", "u", "c", "a", "n">>,
       <<"O", "s", "t", "r", "i", "c", "h">>,
       <<"O", "c", "e", "l", "o", "t">>,
       <<"P", "a", "n", "g", "o", "l", "i", "n">>,
       <<"Q", "u", "o", "k", "k", "a">> >>

\* The while loop of generateRandomName: the first free possibleName.
RECURSIVE suffixProbe(_, _, _, _)
suffixProbe(S, name, possibleName, count) ==
    IF Truthy(getUser(S, [name |-> Str(possibleName)]))
    THEN suffixProbe(S, name, name \o <<"-">> \o NumStringOf(count), count + 1)
    ELSE possibleName

\* generateRandomName(channel)
generateRandomName(S) ==
    LET noun == animals[S.random.animal]
    IN  IF Truthy(getUser(S, [name |-> Str(noun)]))
        THEN LET name == adjectives[S.random.adjective] \o <<" ">> \o noun
             IN  suffixProbe(S, name, name, 2)
        ELSE noun

(***************************************************************************)
(* WebSocketRelay: approveListener and broadcast.  S.sockets is the Set    *)
(* of tracked sockets in insertion order, S.socketInfo[s] the info of      *)
(* socket s, S.sent the calls of send so far.                              *)
(***************************************************************************)
\* approveListener(socketId)
approveListener(S, socketId) ==
    IF S.err THEN S
    ELSE LET hits == {i \in DOMAIN S.sockets :
                        Num(S.socketInfo[S.sockets[i]].id) = socketId}
         IN  IF hits = {} THEN S
             ELSE LET s == S.sockets[CHOOSE i \in hits : \A j \in hits : i <= j]
                  IN  [S EXCEPT !.socketInfo[s].canListen = TRUE]

\* Array.prototype.includes
Includes(arr, x) == \E i \in DOMAIN arr : arr[i] = x

\* broadcastTargets without the check of canListen.
broadcastTargetsUnchecked(S, m) ==
    IF "to" \in DOMAIN m
    THEN LET to == IF m.to.t = "array" THEN m.to.v ELSE <<m.to>>
         IN  SelectSeq(S.sockets, LAMBDA s : Includes(to, Num(S.socketInfo[s].id)))
    ELSE S.sockets

\* The sockets a broadcast of m sends to, in the order of the for loop.
broadcastTargets(S, m) ==
    IF "to" \in DOMAIN m
    THEN LET to == IF m.to.t = "array" THEN m.to.v ELSE <<m.to>>
         IN  SelectSeq(S.sockets, LAMBDA s :
                 S.socketInfo[s].canListen /\ Includes(to, Num(S.socketInfo[s].id)))
    ELSE SelectSeq(S.sockets, LAMBDA s : S.socketInfo[s].canListen)

\* The argument of broadcast after the call: a single `to` is wrapped.
afterBroadcast(m) ==
    IF "to" \in DOMAIN m /\ m.to.t # "array" THEN Put(m, "to", Arr(<<m.to>>)) ELSE m

\* JSON.stringify(m) for an object m, given as the object the text denotes:
\* properties whose value is undefined are left out.
JSONstringify(m) == [k \in {j \in DOMAIN m : m[j].t # "undefined"} |-> m[k]]

\* broadcast(m) for an object m
broadcast(S, m) ==
    IF S.err THEN S
    ELSE LET json == JSONstringify(m)
             targets == broadcastTargets(S, m)
         IN  [S EXCEPT !.handed = Append(@, json),
                       !.sent = @ \o [i \in DOMAIN targets |->
                                        [socket |-> targets[i],
                                         id     |-> S.socketInfo[targets[i]].id,
                                         json   |-> json]]]

(***************************************************************************)
(* ChatChannel: program constants.                                         *)
(***************************************************************************)
\* serverId = -1
serverId == -1
\* maxNameLength = process.env.MAX_NAME_LENGTH || 30
maxNameLength == 30
\* The granularity of timestamps, in ms.
Tick == 100

(***************************************************************************)
(* The message processor (a Conveyor): an ordered list of stages, each a   *)
(* pattern and a handler.  A handler returns the state, the message as it  *)
(* left it, and whether it called end().                                   *)
(***************************************************************************)
End(S, m) == [S |-> S, m |-> m, ended |-> TRUE]
Pass(S, m) == [S |-> S, m |-> m, ended |-> FALSE]

\* A message satisfies a pattern: every key of the pattern is present with
\* an equal value; the value '*' asks for any non-empty value.
Matches(pattern, m) ==
    \A k \in DOMAIN pattern :
        /\ k \in DOMAIN m
        /\ IF pattern[k] = Str("*")
           THEN m[k].t \notin {"undefined", "null"} /\ m[k] # Str(<<>>)
           ELSE m[k].t = pattern[k].t /\ m[k] = pattern[k]

RECURSIVE receive(_, _)

\* broadcastUserList()
broadcastUserList(S) ==
    LET list == MapValues(S.users.sessions)
    IN  receive(S, Obj([_set  |-> Str("users"),
                        value |-> Arr([i \in DOMAIN list |-> list[i].v.name])]))

\* retrieve(first, last)
retrieve(S, first, last) ==
    SelectSeq(S.history, LAMBDA h : h._serial.v >= first.v /\ h._serial.v <= last.v)

\* .use({ _event: 'connect' }, ...)
connectStage(S, m) == End(S, m)

\* The disconnect stage that says nothing when it finds no user.
disconnectStageSilent(S, m) ==
    LET found == getUser(S, [socketId |-> m._sender])
    IN  IF Truthy(found)
        THEN End(broadcastUserList(
                     receive(deleteUser(S, found.v),
                             Obj([text      |-> Str(found.v.name.v \o <<" disconnected.">>),
                                  _remember |-> Bool(TRUE)]))), m)
        ELSE End(S, m)

\* The disconnect stage without its deleteUser call.
disconnectStageKeepsUser(S, m) ==
    LET found == getUser(S, [socketId |-> m._sender])
        u == IF Truthy(found) THEN found.v ELSE [name |-> Str(<<"Unknown user">>)]
        S2 == receive(S, Obj([text      |-> Str(u.name.v \o <<" disconnected.">>),
                              _remember |-> Bool(TRUE)]))
    IN  End(broadcastUserList(S2), m)

\* .use({ _event: 'disconnect' }, ...)
disconnectStage(S, m) ==
    LET found == getUser(S, [socketId |-> m._sender])
        S1 == IF Truthy(found) THEN deleteUser(S, found.v) ELSE S
        u == IF Truthy(found) THEN found.v ELSE [name |-> Str(<<"Unknown user">>)]
        S2 == receive(S1, Obj([text      |-> Str(u.name.v \o <<" disconnected.">>),
                               _remember |-> Bool(TRUE)]))
    IN  End(broadcastUserList(S2), m)

\* The name a request proposes, cut to maxNameLength.
truncateName(name) ==
    IF Len(name) > maxNameLength
    THEN slice(name, maxNameLength) \o <<".", ".", ".">>
    ELSE name

\* The test of the redundant rename with the comparison inverted.
otherSession(nameHolder, currentRecord) == nameHolder.sessionId # currentRecord.sessionId

\* nameHolder.sessionId === currentRecord.sessionId
sameSession(nameHolder, currentRecord) == nameHolder.sessionId = currentRecord.sessionId

\* .use({ request: 'rename' }, ...)
renameStage(S, m0) ==
    IF TypeOf(Get(m0, "text")) # "string" THEN End(Throw(S), m0)
    ELSE
    LET m == Put(m0, "text", Str(truncateName(m0.text.v)))
        currentRecord == getUser(S, [socketId |-> m._sender])
        nameHolder == getUser(S, [name |-> m.text])
    IN  IF ~Truthy(currentRecord) THEN End(Throw(S), m)
        ELSE IF ~Truthy(nameHolder)
        THEN LET S1 == receive(S, Obj([text |-> Str(currentRecord.v.name.v
                                            \o <<" renamed to ">> \o m.text.v),
                                       _remember |-> Bool(TRUE)]))
                 S2 == receive(S1, Obj([_set  |-> Str("rename"),
                                        value |-> Arr(<<currentRecord.v.name, m.text>>)]))
                 S3 == updateUser(S2, [socketId |-> m._sender], [name |-> m.text])
             IN  End(broadcastUserList(S3), m)
        ELSE IF sameSession(nameHolder.v, currentRecord.v)
        THEN End(receive(S, Obj([to   |-> m._sender,
                                 text |-> Str(<<"You are already named ">>
                                              \o m.text.v \o <<".">>)])), m)
        ELSE LET S1 == receive(S, Obj([text |-> Str(<<"Name already in use. (">>
                                                    \o m.text.v \o <<")">>),
                                       to   |-> m._sender]))
             IN  End(receive(S1, Obj([to    |-> m._sender,
                                      _set  |-> Str("name"),
                                      value |-> currentRecord.v.name])), m)

\* The test of identify without the case of the blank name.
nameTaken(S, name) == Truthy(getUser(S, [name |-> name]))

\* channel.getUser({ name: m.name }) || m.name === ''
nameTakenOrBlank(S, name) == Truthy(getUser(S, [name |-> name])) \/ name = Str(<<>>)

\* channel.relay.approveListener(m._sender); the sender is recorded as one
\* whose identify request reached its stage.
approveSender(S, sender) ==
    [approveListener(S, sender) EXCEPT !.identified = @ \cup {sender.v}]

\* The record identify creates: under a generated name when the name asked
\* for is in use or blank, under the name asked for otherwise.
createIdentified(S, m) ==
    createUser(S, [socketId  |-> m._sender,
                   sessionId |-> Get(m, "sid"),
                   name      |-> IF nameTakenOrBlank(S, m.name)
                                 THEN Str(generateRandomName(S))
                                 ELSE m.name])

\* channel.receive({ to: m._sender, _set: 'name', value: ... })
tellName(S, sender) ==
    IF S.err THEN S
    ELSE receive(S, Obj([to    |-> sender,
                         _set  |-> Str("name"),
                         value |-> getUser(S, [socketId |-> sender]).v.name]))

\* channel.receive({ to: m._sender, _set: 'lastSeen', value: ... })
tellLastSeen(S, sender) ==
    IF S.err THEN S
    ELSE receive(S, Obj([to    |-> sender,
                         _set  |-> Str("lastSeen"),
                         value |-> Num(S.lastSerial)]))

\* channel.receive({ text: ... + ' joined.', _remember: true })
announceJoined(S, sender) ==
    IF S.err THEN S
    ELSE receive(S, Obj([text |-> Str(getUser(S, [socketId |-> sender]).v.name.v
                                      \o <<" joined.">>),
                         _remember |-> Bool(TRUE)]))

\* identify, once the listener is approved and the name is cut to length
identifyNamed(S, m) ==
    End(broadcastUserList(
            announceJoined(
                tellLastSeen(
                    tellName(createIdentified(S, m), m._sender),
                    m._sender),
                m._sender)),
        m)

\* identify, once the listener is approved
identifyApproved(S, m0) ==
    IF TypeOf(Get(m0, "name")) # "string" THEN End(Throw(S), m0)
    ELSE identifyNamed(S, Put(m0, "name", Str(truncateName(m0.name.v))))

\* .use({ request: 'identify' }, ...)
identifyStage(S, m0) == identifyApproved(approveSender(S, m0._sender), m0)

\* .use({ request: 'history' }, ...)
historyStage(S, m) ==
    LET first == Coalesce(Get(m, "first"), Num(0))
        last == Coalesce(Get(m, "last"), Num(S.lastSerial))
        records == retrieve(S, first, last)
    IN  IF Len(records) # 0
        THEN End(receive(S, Obj([to |-> m._sender, history |-> Arr(records)])), m)
        ELSE End(S, m)

\* The reply to an unknown recipient, with no addressee.
recipientNotFoundToAll(S, m) ==
    receive(S, Obj([text |-> Str(<<"Recipient not found.">>)]))

\* The reply of the direct message stage when no user holds the name.
recipientNotFound(S, m) ==
    receive(S, Obj([to   |-> m._sender,
                    text |-> Str(<<"Recipient not found.">>)]))

\* The direct stage that leaves the addressee out of what it passes on.
directStageUnaddressed(S, m0) ==
    IF getUserThrows([name |-> m0.recipient]) THEN End(Throw(S), m0)
    ELSE
    LET whom == getUser(S, [name |-> m0.recipient])
        sender == getUser(S, [socketId |-> m0._sender])
    IN  IF ~Truthy(whom)
        THEN End(recipientNotFound(S, m0), m0)
        ELSE IF ~Truthy(sender) THEN End(Throw(S), m0)
        ELSE End(receive(S, Obj([name |-> Str(sender.v.name.v \o <<" -> ">>
                                              \o whom.v.name.v),
                                 text |-> Get(m0, "text")])), m0)

\* .use({ recipient: '*' }, ...)
directStage(S, m0) ==
    IF getUserThrows([name |-> m0.recipient]) THEN End(Throw(S), m0)
    ELSE
    LET whom == getUser(S, [name |-> m0.recipient])
        sender == getUser(S, [socketId |-> m0._sender])
    IN  IF ~Truthy(whom)
        THEN End(recipientNotFound(S, m0), m0)
        ELSE IF ~Truthy(sender) THEN End(Throw(S), m0)
        ELSE
        LET m == Put(m0, "name", sender.v.name)
            label == Str(m.name.v \o <<" -> ">> \o whom.v.name.v)
            S1 == receive(S, Obj([to   |-> whom.v.socketId,
                                  name |-> label,
                                  text |-> Get(m, "text")]))
            S2 == IF m._sender # whom.v.socketId
                  THEN receive(S1, Obj([to   |-> m._sender,
                                        name |-> label,
                                        text |-> Get(m, "text")]))
                  ELSE S1
        IN  End(S2, m)

\* .use({ _event: 'transmit' }, ...)
transmitStage(S, m) ==
    LET sender == getUser(S, [socketId |-> m._sender])
    IN  IF ~Truthy(sender) THEN Pass(Throw(S), m)
        ELSE Pass(S, Put(Put(m, "name", sender.v.name), "_remember", Bool(TRUE)))

\* The timestamp stage comparing with < where the code has <=.
timestampStageLess(S, m) ==
    LET coarse == Tick * (DateNow(S) \div Tick)
        timestamp == IF coarse < S.lastTimestamp THEN S.lastTimestamp + 1 ELSE coarse
    IN  Pass([AfterDateNow(S) EXCEPT !.lastTimestamp = timestamp],
             Put(m, "_time", Num(timestamp)))

\* Timestamp message
timestampStage(S, m) ==
    LET coarse == Tick * (DateNow(S) \div Tick)
        timestamp == IF coarse <= S.lastTimestamp THEN S.lastTimestamp + 1 ELSE coarse
    IN  Pass([AfterDateNow(S) EXCEPT !.lastTimestamp = timestamp],
             Put(m, "_time", Num(timestamp)))

\* The stage that leaves the sender in the message.
eraseSenderSkipped(S, m) == Pass(S, m)

\* Remove internal sender property
eraseSenderStage(S, m) == Pass(S, Del(m, "_sender"))

\* ToIntegerOrInfinity of a number given in tenths: truncation toward zero
truncTenths(n) == IF n >= 0 THEN n \div 10 ELSE -((-n) \div 10)

\* Array.prototype.slice(start) for an integer start
sliceFrom(arr, start) ==
    LET k == IF start < 0
             THEN (IF Len(arr) + start > 0 THEN Len(arr) + start ELSE 0)
             ELSE (IF start < Len(arr) THEN start ELSE Len(arr))
    IN  SubSeq(arr, k + 1, Len(arr))

\* history.slice(-maxHistory * 0.7)
trim(history, maxHistory) == sliceFrom(history, truncTenths(-maxHistory * 7))

\* The remember stage numbering a record by its place in the history.
rememberByLength(S, m0) ==
    LET m == Put(Del(m0, "_remember"), "_serial", Num(Len(S.history) + 1))
        pushed == Append(S.history, m)
    IN  Pass([S EXCEPT !.lastSerial = Len(S.history) + 1,
                       !.history = IF Len(pushed) > S.maxHistory
                                   THEN trim(pushed, S.maxHistory)
                                   ELSE pushed],
             m)

\* .use({ _remember: true }, ...)
rememberStage(S, m0) ==
    LET m == Put(Del(m0, "_remember"), "_serial", Num(S.lastSerial + 1))
        pushed == Append(S.history, m)
    IN  Pass([S EXCEPT !.lastSerial = @ + 1,
                       !.history = IF Len(pushed) > S.maxHistory
                                   THEN trim(pushed, S.maxHistory)
                                   ELSE pushed],
             m)

\* Finally, broadcast.  broadcast wraps m.to in place, and a remembered m
\* is the object that ends the history.
broadcastStage(S, m) ==
    LET S1 == broadcast(S, m)
    IN  Pass(IF "_serial" \in DOMAIN m
             THEN [S1 EXCEPT !.history[Len(S1.history)] = afterBroadcast(m)]
             ELSE S1,
             afterBroadcast(m))

\* The stages of initializeChatProcessor, in the order of their use() calls.
stages ==
    << [pattern |-> [_event |-> Str("connect")],     handler |-> "connect"],
       [pattern |-> [_event |-> Str("disconnect")],  handler |-> "disconnect"],
       [pattern |-> [request |-> Str("rename")],     handler |-> "rename"],
       [pattern |-> [request |-> Str("identify")],   handler |-> "identify"],
       [pattern |-> [request |-> Str("history")],    handler |-> "history"],
       [pattern |-> [recipient |-> Str("*")],        handler |-> "direct"],
       [pattern |-> [_event |-> Str("transmit")],    handler |-> "transmit"],
       [pattern |-> Empty,                           handler |-> "timestamp"],
       [pattern |-> Empty,                           handler |-> "eraseSender"],
       [pattern |-> [_remember |-> Bool(TRUE)],      handler |-> "remember"],
       [pattern |-> Empty,                           handler |-> "broadcast"] >>

handle(handler, S, m) ==
    CASE handler = "connect"     -> connectStage(S, m)
      [] handler = "disconnect"  -> disconnectStage(S, m)
      [] handler = "rename"      -> renameStage(S, m)
      [] handler = "identify"    -> identifyStage(S, m)
      [] handler = "history"     -> historyStage(S, m)
      [] handler = "direct"      -> directStage(S, m)
      [] handler = "transmit"    -> transmitStage(S, m)
      [] handler = "timestamp"   -> timestampStage(S, m)
      [] handler = "eraseSender" -> eraseSenderStage(S, m)
      [] handler = "remember"    -> rememberStage(S, m)
      [] handler = "broadcast"   -> broadcastStage(S, m)

\* Conveyor.process(m), from stage i on: the stages run in order, a stage
\* whose pattern the message does not satisfy is skipped, and end() or an
\* exception stops the run.
RECURSIVE runStages(_, _, _)
runStages(S, m, i) ==
    IF S.err \/ i > Len(stages) THEN S
    ELSE IF ~Matches(stages[i].pattern, m) THEN runStages(S, m, i + 1)
    ELSE LET r == handle(stages[i].handler, S, m)
         IN  IF r.ended THEN r.S ELSE runStages(r.S, r.m, i + 1)

process(S, m) == runStages(S, m, 1)

\* String(x) for a primitive x
StringOf(x) ==
    CASE x.t = "string"  -> x.v
      [] x.t = "number"  -> NumStringOf(x.v)
      [] x.t = "boolean" -> IF x.v THEN <<"true">> ELSE <<"false">>
      [] OTHER           -> <<x.t>>

\* receive(message)
receive(S, message) ==
    IF S.err THEN S
    ELSE IF message.t = "null" THEN Throw(S)
    ELSE LET m == IF TypeOf(message) # "object"
                  THEN [text |-> Str(StringOf(message))]
                  ELSE message.v
         IN  process(S, Put(m, "_sender", Coalesce(Get(m, "_sender"), Num(serverId))))

(***************************************************************************)
(* WebSocketRelay: the idle timer, the sanitizer and the three handlers    *)
(* of a socket.  S.timers[s] counts the pending timeout callbacks that     *)
(* close socket s; info.timeout is "absent" while the info has no timeout  *)
(* property, and otherwise says whether the timer it names is still        *)
(* "pending" or has "fired".                                               *)
(***************************************************************************)
\* resetIdleTimer without its clearTimeout call.
resetIdleTimerKeepsOld(S, s) ==
    IF S.err THEN S
    ELSE IF s \in DOMAIN S.socketInfo
    THEN [S EXCEPT !.timers[s] = @ + 1, !.socketInfo[s].timeout = "pending"]
    ELSE S

\* resetIdleTimer(s)
resetIdleTimer(S, s) ==
    IF S.err THEN S
    ELSE IF s \in DOMAIN S.socketInfo
    THEN LET cleared == IF S.socketInfo[s].timeout = "pending"
                        THEN [S EXCEPT !.timers[s] = @ - 1]
                        ELSE S
         IN  [cleared EXCEPT !.timers[s] = @ + 1,
                             !.socketInfo[s].timeout = "pending"]
    ELSE S

\* The keys of the model's messages that /^_/ matches.
underscoreKeys ==
    {"_sender", "_event", "_remember", "_serial", "_time", "_set"}

\* The sanitizer looking at the top-level keys only.
containsForbiddenShallow(message, recursionDepth) ==
    /\ message.t = "object"
    /\ \E key \in DOMAIN message.v : key \in underscoreKeys

\* containsForbiddenFields(message, recursionDepth)
RECURSIVE containsForbiddenFields(_, _)
containsForbiddenFields(message, recursionDepth) ==
    IF recursionDepth > 9 THEN TRUE
    ELSE IF message.t \notin {"object", "array"} THEN FALSE
    ELSE \E key \in DOMAIN message.v :
            \/ (message.t = "object" /\ key \in underscoreKeys)
            \/ /\ TypeOf(message.v[key]) = "object"
               /\ containsForbiddenFields(message.v[key], recursionDepth + 1)

\* receiveConnection(s)
receiveConnection(S, s) ==
    IF \E i \in DOMAIN S.sockets : S.sockets[i] = s THEN S
    ELSE LET id == S.connectionID
             S1 == [S EXCEPT
                      !.sockets = Append(@, s),
                      !.socketInfo = [x \in DOMAIN @ \cup {s} |->
                                        IF x = s
                                        THEN [id |-> id, canListen |-> FALSE,
                                              timeout |-> "absent"]
                                        ELSE @[x]],
                      !.timers = [x \in DOMAIN @ \cup {s} |->
                                    IF x \in DOMAIN @ THEN @[x] ELSE 0],
                      !.connectionID = @ + 1]
         IN  receive(resetIdleTimer(S1, s),
                     Obj([_sender |-> Num(id), _event |-> Str("connect")]))

\* s.on('message', data => ...): data is given by what JSON.parse makes of
\* it, [ok |-> FALSE] when JSON.parse throws.
onMessage(S, s, data) ==
    LET id == S.socketInfo[s].id
        S1 == resetIdleTimer(S, s)
        parsed == data.value
        m == IF TypeOf(parsed) # "object"
             THEN Obj([text |-> Str(StringOf(parsed))])
             ELSE parsed
        S2 == IF ~data.ok THEN Throw(S1)
              ELSE IF containsForbiddenFields(m, 0) THEN S1
              ELSE IF m.t = "null" THEN Throw(S1)
              ELSE LET tagged == Put(Put(m.v, "_sender", Num(id)),
                                     "_event", Str("transmit"))
                   IN  receive([S1 EXCEPT !.entered = Append(@, tagged)], Obj(tagged))
    IN  [S2 EXCEPT !.err = FALSE]

\* The close handler that untracks the socket without telling the channel.
onCloseUntrackOnly(S, s) ==
    [S EXCEPT !.socketInfo = [x \in DOMAIN @ \ {s} |-> @[x]],
              !.sockets = SelectSeq(@, LAMBDA x : x # s)]

\* s.on('close', () => ...)
onClose(S, s) ==
    LET id == S.socketInfo[s].id
        S1 == receive(S, Obj([_sender |-> Num(id), _event |-> Str("disconnect")]))
    IN  [S1 EXCEPT !.socketInfo = [x \in DOMAIN @ \ {s} |-> @[x]],
                   !.sockets = SelectSeq(@, LAMBDA x : x # s)]

(***************************************************************************)
(* The back-references of channels and relays.  W.relay[c] is the relay    *)
(* field of channel c and W.channel[r] the channel field of relay r;       *)
(* objects are numbered from 1 in the order of their construction, and     *)
(* NoObject stands for null.                                               *)
(***************************************************************************)
NoObject == 0

\* attachRelay(r) of channel c and setChannel(c) of relay r call each other.
RECURSIVE attachRelay(_, _, _), setChannel(_, _, _)
attachRelay(W, c, r) ==
    IF W.relay[c] = r THEN W
    ELSE IF r = NoObject THEN [W EXCEPT !.relay[c] = r]
    ELSE setChannel([W EXCEPT !.relay[c] = r], r, c)

setChannel(W, r, c) ==
    IF W.channel[r] = c THEN W
    ELSE IF c = NoObject THEN [W EXCEPT !.channel[r] = c]
    ELSE attachRelay([W EXCEPT !.channel[r] = c], c, r)

\* A function with one more key.
With(f, k, x) == [j \in DOMAIN f \cup {k} |-> IF j = k THEN x ELSE f[j]]

\* new ChatChannel({ relay: r }): the relay field starts as null
newChatChannel(W, r) ==
    IF r # NoObject
    THEN attachRelay([W EXCEPT !.relay = With(@, Cardinality(DOMAIN @) + 1, NoObject)],
                     Cardinality(DOMAIN W.relay) + 1, r)
    ELSE [W EXCEPT !.relay = With(@, Cardinality(DOMAIN @) + 1, NoObject)]

\* new WebSocketRelay(c): the channel field starts as null
newWebSocketRelay(W, c) ==
    setChannel([W EXCEPT !.channel = With(@, Cardinality(DOMAIN @) + 1, NoObject)],
               Cardinality(DOMAIN W.channel) + 1, c)

\* No channel and no relay has been constructed.
NoObjects == [relay |-> [c \in {} |-> NoObject], channel |-> [r \in {} |-> NoObject]]

\* server.js: wsRelay = new WebSocketRelay(), then
\* channel = new ChatChannel({ relay: wsRelay })
serverWiring == newChatChannel(newWebSocketRelay(NoObjects, NoObject), 1)

(***************************************************************************)
(* The state of the program.                                               *)
(***************************************************************************)
VARIABLES
    relay,          \* ChatChannel.relay, of each channel constructed
    channel,        \* WebSocketRelay.channel, of each relay constructed
    users,          \* ChatChannel.users: lowerCaseNames, sessions, sockets
    lastSerial,     \* ChatChannel.lastSerial
    lastTimestamp,  \* ChatChannel.lastTimestamp
    maxHistory,     \* ChatChannel.maxHistory
    history,        \* ChatChannel.history
    sockets,        \* WebSocketRelay.sockets, in insertion order
    socketInfo,     \* WebSocketRelay.socketInfo
    connectionID,   \* WebSocketRelay.connectionID
    timers,         \* pending idle-timeout callbacks, per socket
    readyState,     \* the transport's state of each socket
    started,        \* the listen callback of server.js has run
    crashed,        \* an exception has escaped a handler
    sent,           \* the send() calls of the running handler: [socket, id, json]
    handed,         \* the messages the running handler gave to broadcast
    entered,        \* the messages the running handler gave to receive
    identified,     \* the ids whose identify request reached the identify stage
    event           \* the running handler: its kind, socket and frame

vars == << relay, channel, users, lastSerial, lastTimestamp, maxHistory, history, sockets,
           socketInfo, connectionID, timers, readyState, started, crashed,
           sent, handed, entered, identified, event >>

(***************************************************************************)
(* Inputs: what clients send, what the clock reads.                        *)
(***************************************************************************)
Alice == <<"A", "l", "i", "c", "e">>
alice == <<"a", "l", "i", "c", "e">>
Bob == <<"B", "o", "b">>
\* A name one character longer than maxNameLength.
LongName == [i \in 1..(maxNameLength + 1) |-> "x"]
Hi == <<"h", "i">>

RequestFrame(request, fields) == Obj(Put(fields, "request", Str(request)))

IdentifyFrames ==
    {RequestFrame("identify", [name |-> Str(Alice), sid |-> Str("s1")]),
     RequestFrame("identify", [name |-> Str(alice), sid |-> Str("s2")]),
     RequestFrame("identify", [name |-> Str(<<>>)]),
     RequestFrame("identify", [sid |-> Str("s1")])}

RenameFrames ==
    {RequestFrame("rename", [text |-> Str(n)]) : n \in {alice, LongName, <<>>}}
    \cup {RequestFrame("rename", Empty)}

HistoryFrames ==
    {RequestFrame("history", [first |-> Num(2)])}

DirectFrames ==
    {Obj([recipient |-> Str(n), text |-> Str(Hi)]) : n \in {Alice, Bob}}

PlainFrames ==
    {Obj([text |-> Str(Hi), name |-> Str(Bob)]),
     Obj([text |-> Str(Hi), to |-> Num(0)]),
     Str(Hi)}

\* An object nested n levels deep, none of whose keys is reserved.
RECURSIVE Nested(_)
Nested(n) == IF n = 0 THEN Obj([text |-> Str(Hi)]) ELSE Obj([data |-> Nested(n - 1)])

ForbiddenFrames ==
    {Obj([_serial |-> Num(99), text |-> Str(<<"x">>)]),
     Obj([request |-> Str("identify"), name |-> Str(Alice),
          list |-> Arr(<<Obj([_sender |-> Num(0)])>>)]),
     Nested(10)}

\* Frames that JSON.parse accepts, and one that it does not.
Frames ==
    {[ok |-> TRUE, value |-> f] :
        f \in IdentifyFrames \cup RenameFrames \cup HistoryFrames \cup DirectFrames
              \cup PlainFrames \cup ForbiddenFrames \cup {Null}}
    \cup {[ok |-> FALSE]}

\* Readings of Date.now() in ms: within the first tick and within the second.
ClockVals == {30, 130}
\* The readings one handler makes: the first, and every later one.
ClockRuns == {<<a>> : a \in ClockVals} \cup {<<a, b>> : a \in ClockVals, b \in ClockVals}

\* The draws of Math.random one handler makes.
Randoms == [animal : 1..MaxRand, adjective : 1..MaxRand, dflt : {0}]

\* MAX_HISTORY configurations
Caps == 1..MaxCap

(***************************************************************************)
(* Initial state: server.js has constructed the relay and the channel.     *)
(***************************************************************************)
\* The class fields of the channel and of the relay, as initialized.
Fields ==
    /\ users = [lowerCaseNames |-> EmptyMap, sessions |-> EmptyMap, sockets |-> EmptyMap]
    /\ lastSerial = 0
    /\ lastTimestamp = 0
    /\ maxHistory \in Caps
    /\ history = <<>>
    /\ sockets = <<>>
    /\ socketInfo = [x \in {} |-> 0]
    /\ connectionID = 0
    /\ timers = [x \in {} |-> 0]
    /\ readyState = [x \in {} |-> "OPEN"]
    /\ started = FALSE
    /\ crashed = FALSE
    /\ sent = <<>>
    /\ handed = <<>>
    /\ entered = <<>>
    /\ identified = {}
    /\ event = [kind |-> "idle"]

Init ==
    /\ Fields
    /\ relay = serverWiring.relay
    /\ channel = serverWiring.channel

\* The state a handler starts from.
Channel(now, random) ==
    [ users |-> users, lastSerial |-> lastSerial, lastTimestamp |-> lastTimestamp,
      maxHistory |-> maxHistory, history |-> history, sockets |-> sockets,
      socketInfo |-> socketInfo, connectionID |-> connectionID, timers |-> timers,
      sent |-> <<>>, handed |-> <<>>, entered |-> <<>>, identified |-> identified,
      err |-> FALSE, now |-> now, random |-> random ]

\* The state a handler leaves.
Install(S) ==
    /\ users' = S.users
    /\ lastSerial' = S.lastSerial
    /\ lastTimestamp' = S.lastTimestamp
    /\ history' = S.history
    /\ sockets' = S.sockets
    /\ socketInfo' = S.socketInfo
    /\ connectionID' = S.connectionID
    /\ timers' = S.timers
    /\ sent' = S.sent
    /\ handed' = S.handed
    /\ entered' = S.entered
    /\ identified' = S.identified
    /\ crashed' = S.err
    /\ UNCHANGED << maxHistory, relay, channel >>

\* The model takes no new event once MaxBurst timestamps follow a tick value,
\* unless the clock has reached the next tick, nor once MaxSerial serial
\* numbers are used.
BurstLeft(now) ==
    /\ Tick * (now[1] \div Tick) > lastTimestamp \/ lastTimestamp % Tick < MaxBurst
    /\ lastSerial < MaxSerial

NoRandom == [animal |-> 1, adjective |-> 1, dflt |-> 0]

\* The runs of the clock that differ in effect: readings that are not ahead
\* of lastTimestamp all yield lastTimestamp + 1, and <<30>> stands for the
\* runs made of such readings only.
Clock ==
    {r \in ClockRuns :
        \/ r = <<30>>
        \/ /\ \E i \in DOMAIN r : Tick * (r[i] \div Tick) > lastTimestamp
           /\ (Len(r) = 2 => r[1] # r[2])}

\* The event loop is idle: no handler is running.
Idle == event.kind = "idle" /\ started /\ ~crashed

(***************************************************************************)
(* Steps.                                                                  *)
(***************************************************************************)
\* server.listen's callback: the channel receives 'Server started.'
ServerStarted(now) ==
    /\ ~started /\ ~crashed /\ event.kind = "idle"
    /\ started' = TRUE
    /\ \E S \in {receive(Channel(now, NoRandom),
                         Obj([text |-> Str(<<"Server started.">>),
                              _remember |-> Bool(TRUE)]))} : Install(S)
    /\ event' = [kind |-> "start"]
    /\ UNCHANGED readyState

\* wsServer.on('connection', newSocket => wsRelay.receiveConnection(newSocket))
Connection ==
    /\ Idle
    /\ connectionID < MaxConn
    /\ LET s == Cardinality(DOMAIN readyState)
       IN  /\ \E S \in {receiveConnection(Channel(<<0>>, NoRandom), s)} : Install(S)
           /\ readyState' = [x \in DOMAIN readyState \cup {s} |->
                               IF x = s THEN "OPEN" ELSE readyState[x]]
           /\ event' = [kind |-> "connection", socket |-> s]
    /\ UNCHANGED started

\* A frame arrives on a tracked socket.
Message(s, data, now, random) ==
    /\ Idle /\ BurstLeft(now)
    /\ s \in DOMAIN socketInfo
    /\ readyState[s] \in {"OPEN", "CLOSING"}
    /\ \E S \in {onMessage(Channel(now, random), s, data)} : Install(S)
    /\ event' = [kind |-> "message", socket |-> s, id |-> socketInfo[s].id,
                 data |-> data]
    /\ UNCHANGED << readyState, started >>

\* The transport emits 'close' on a tracked socket: its peer left, or close()
\* finished.
CloseEvent(s, now) ==
    /\ Idle
    /\ s \in DOMAIN socketInfo
    /\ readyState[s] \in {"OPEN", "CLOSING"}
    /\ \E S \in {onClose(Channel(now, NoRandom), s)} : Install(S)
    /\ readyState' = [readyState EXCEPT ![s] = "CLOSED"]
    /\ event' = [kind |-> "close", socket |-> s, id |-> socketInfo[s].id]
    /\ UNCHANGED started

\* A socket is closed while the model still takes new events.
Close(s, now) == BurstLeft(now) /\ CloseEvent(s, now)

\* An idle timeout of socket s fires: s.close().  `named` says whether it is
\* the timer that info.timeout names.
TimerFires(s, named) ==
    /\ Idle
    /\ s \in DOMAIN timers /\ timers[s] > 0
    /\ LET isNamed == s \in DOMAIN socketInfo /\ socketInfo[s].timeout = "pending"
       IN  /\ named => isNamed
           /\ ~named => timers[s] > (IF isNamed THEN 1 ELSE 0)
           /\ socketInfo' = IF named
                            THEN [socketInfo EXCEPT ![s].timeout = "fired"]
                            ELSE socketInfo
    /\ timers' = [timers EXCEPT ![s] = @ - 1]
    /\ readyState' = [readyState EXCEPT ![s] = IF @ = "OPEN" THEN "CLOSING" ELSE @]
    /\ event' = [kind |-> "timeout", socket |-> s]
    /\ UNCHANGED << relay, channel, users, lastSerial, lastTimestamp, maxHistory,
                    history, sockets,
                    connectionID, started, crashed, sent, handed, entered,
                    identified >>

\* The handler returns to the event loop.
Return ==
    /\ event.kind # "idle"
    /\ event' = [kind |-> "idle"]
    /\ sent' = <<>>
    /\ handed' = <<>>
    /\ entered' = <<>>
    /\ UNCHANGED << relay, channel, users, lastSerial, lastTimestamp, maxHistory,
                    history, sockets,
                    socketInfo, connectionID, timers, readyState, started, crashed,
                    identified >>

\* The events of the server.  The idle timeout is left out of Next: all
\* TimerFires does is start the close of a socket, and Close is taken for
\* any open socket anyway.
Next ==
    \/ \E now \in Clock : ServerStarted(now)
    \/ Connection
    \/ \E s \in DOMAIN socketInfo, data \in Frames, now \in Clock, random \in Randoms :
          Message(s, data, now, random)
    \/ \E s \in DOMAIN socketInfo, now \in Clock : Close(s, now)
    \/ Return

Spec == Init /\ [][Next]_vars

(***************************************************************************)
(* The wiring of channels and relays on its own: constructors and the two  *)
(* wiring methods, called in any order on any objects.                     *)
(***************************************************************************)
InitWiring ==
    /\ Fields
    /\ relay = NoObjects.relay
    /\ channel = NoObjects.channel

Wiring == [relay |-> relay, channel |-> channel]

InstallWiring(W) ==
    /\ relay' = W.relay
    /\ channel' = W.channel
    /\ UNCHANGED << users, lastSerial, lastTimestamp, maxHistory, history, sockets,
                    socketInfo, connectionID, timers, readyState, started, crashed,
                    sent, handed, entered, identified, event >>

\* new ChatChannel({ relay: r }), r a relay or absent
NewChatChannel(r) ==
    /\ Cardinality(DOMAIN relay) < MaxChannels
    /\ InstallWiring(newChatChannel(Wiring, r))

\* new WebSocketRelay(c), c a channel or absent
NewWebSocketRelay(c) ==
    /\ Cardinality(DOMAIN channel) < MaxRelays
    /\ InstallWiring(newWebSocketRelay(Wiring, c))

\* c.attachRelay(r)
AttachRelay(c, r) == InstallWiring(attachRelay(Wiring, c, r))

\* r.setChannel(c)
SetChannel(r, c) == InstallWiring(setChannel(Wiring, r, c))

NextWiring ==
    \/ \E r \in DOMAIN channel \cup {NoObject} : NewChatChannel(r)
    \/ \E c \in DOMAIN relay \cup {NoObject} : NewWebSocketRelay(c)
    \/ \E c \in DOMAIN relay, r \in DOMAIN channel \cup {NoObject} : AttachRelay(c, r)
    \/ \E r \in DOMAIN channel, c \in DOMAIN relay \cup {NoObject} : SetChannel(r, c)

SpecWiring == InitWiring /\ [][NextWiring]_vars

(***************************************************************************)
(* The server with its idle timers.  A connection sends one frame of each  *)
(* kind the message handler tells apart; the timeout callback of           *)
(* resetIdleTimer runs, and the close it starts completes.                 *)
(***************************************************************************)
IdleFrames ==
    {[ok |-> TRUE, value |-> RequestFrame("identify", [name |-> Str(Alice), sid |-> Str("s1")])],
     [ok |-> TRUE, value |-> Obj([_serial |-> Num(99), text |-> Str(<<"x">>)])],
     [ok |-> FALSE]}

\* close() finishes on a socket that the timeout callback closed.
CloseCompletes(s, now) ==
    /\ s \in DOMAIN socketInfo
    /\ readyState[s] = "CLOSING"
    /\ CloseEvent(s, now)

\* The peer of an open socket leaves.
PeerLeaves(s, now) ==
    /\ s \in DOMAIN socketInfo
    /\ readyState[s] = "OPEN"
    /\ Close(s, now)

NextIdle ==
    \/ \E now \in Clock : ServerStarted(now)
    \/ Connection
    \/ \E s \in DOMAIN socketInfo, data \in IdleFrames, now \in Clock :
          Message(s, data, now, NoRandom)
    \/ \E s \in DOMAIN timers : TimerFires(s, TRUE)
    \/ \E s \in DOMAIN timers : TimerFires(s, FALSE)
    \/ \E s \in DOMAIN socketInfo, now \in Clock : CloseCompletes(s, now)
    \/ \E s \in DOMAIN socketInfo, now \in Clock : PeerLeaves(s, now)
    \/ Return

\* A frame of socket s is being handled.
FrameOn(s) == event.kind = "message" /\ event.socket = s

\* The timeout that info.timeout of socket s names is pending.
TimerPending(s) ==
    /\ s \in DOMAIN socketInfo
    /\ socketInfo[s].timeout = "pending"

\* The 'close' event of socket s can be delivered.
CloseDue(s) ==
    /\ Idle
    /\ s \in DOMAIN socketInfo
    /\ readyState[s] = "CLOSING"

\* A timeout runs its callback unless clearTimeout reaches it first, and
\* only the message handler of its socket clears it: a timeout is not
\* pending for ever unless frames of its socket keep arriving.
TimerFair(s) == []<>~TimerPending(s) \/ []<>FrameOn(s)

\* The transport ends the close that s.close() started.  This is
\* SF_vars(\E now \in Clock : CloseCompletes(s, now)): the action is
\* enabled exactly when CloseDue(s) holds and is taken at most once for s.
CloseFair(s) == <>[]~CloseDue(s)

\* Handlers return, timeouts run, closes end.
FairIdle ==
    /\ WF_vars(Return)
    /\ \A s \in 0..(MaxConn - 1) : TimerFair(s) /\ CloseFair(s)

SpecIdle == Init /\ [][NextIdle]_vars /\ FairIdle


(***************************************************************************)
(* Properties.                                                             *)
(***************************************************************************)
\* The user records an index holds.
Records(map) == {map[i].x.v : i \in DOMAIN map}

\* The live users of a registry: the records reachable through any index.
LiveUsers(registry) ==
    Records(registry.lowerCaseNames) \cup Records(registry.sessions)
        \cup Records(registry.sockets)

\* The serial numbers of a history.
Serials(h) == {h[i]._serial.v : i \in DOMAIN h}

\* C1: no message, addressed or general, is sent to a connection whose
\* approval flag is false: every send of a handler goes to a connection
\* from which an identify request was processed, and a receiver that is
\* still tracked has its flag set.
OnlyApprovedReceive ==
    \A i \in DOMAIN sent :
        /\ sent[i].id \in identified
        /\ sent[i].socket \in DOMAIN socketInfo
              => socketInfo[sent[i].socket].canListen

\* C1, its case: a general message is sent while a tracked connection is
\* still unapproved.
UnapprovedLeftOut ==
    /\ \E i \in DOMAIN sent : "to" \notin DOMAIN sent[i].json
    /\ \E s \in DOMAIN socketInfo : ~socketInfo[s].canListen

\* C2: the three indexes agree on membership: a connection id resolves to u
\* in sockets iff u's lower-cased name resolves to u in lowerCaseNames and
\* u's session token resolves to u in sessions; the maps have one size.
IndexesAgree ==
    /\ MapSize(users.lowerCaseNames) = MapSize(users.sockets)
    /\ MapSize(users.sessions) = MapSize(users.sockets)
    /\ \A u \in LiveUsers(users) :
          MapGet(users.sockets, u.socketId) = Obj(u)
             <=> /\ MapGet(users.lowerCaseNames, lowerCaseName(u)) = Obj(u)
                 /\ MapGet(users.sessions, u.sessionId) = Obj(u)

\* C3: no two distinct live users share a case-insensitive name, a session
\* token or a connection id.
NoSharedKeys ==
    \A u, v \in LiveUsers(users) :
        u # v => /\ lowerCaseName(u) # lowerCaseName(v)
                 /\ u.sessionId # v.sessionId
                 /\ u.socketId # v.socketId

\* C4: the history is strictly ascending by _serial and its last record's
\* serial is lastSerial; lastSerial never decreases, and a serial that
\* appears in the history was never used before: it is one of the numbers
\* lastSerial has just passed, and the largest of them is persisted.
SerialsAscending ==
    /\ \A i \in 1..(Len(history) - 1) : history[i]._serial.v < history[i + 1]._serial.v
    /\ history # <<>> => history[Len(history)]._serial.v = lastSerial

SerialsNeverReused ==
    /\ lastSerial' >= lastSerial
    /\ Serials(history') \ Serials(history) \subseteq (lastSerial + 1)..lastSerial'
    /\ lastSerial' > lastSerial => lastSerial' \in Serials(history')

SerialsOnce == []SerialsAscending /\ [][SerialsNeverReused]_vars

\* C4, its case: the history has been trimmed and holds later serials only.
TrimmedHistory == history # <<>> /\ history[1]._serial.v > 1

\* ceil(M * 0.7)
CeilSevenTenths(M) == (M * 7 + 9) \div 10

\* C5: whenever an append makes the history longer than the cap M, the
\* history afterwards has ceil(M * 0.7) records, those with the highest
\* serials; so no handler leaves a history longer than M.
TrimStep ==
    (lastSerial' = lastSerial + 1 /\ Len(history) + 1 > maxHistory)
        => /\ Len(history') = CeilSevenTenths(maxHistory)
           /\ Serials(history') =
                 (lastSerial' - CeilSevenTenths(maxHistory) + 1)..lastSerial'

TrimToSevenTenths == [](Len(history) <= maxHistory) /\ [][TrimStep]_vars


\* A value holds a reserved key, at the top level or nested.
RECURSIVE HasReservedKey(_)
HasReservedKey(x) ==
    CASE x.t = "object" -> \E k \in DOMAIN x.v :
                               k \in underscoreKeys \/ HasReservedKey(x.v[k])
      [] x.t = "array"  -> \E i \in DOMAIN x.v : HasReservedKey(x.v[i])
      [] OTHER          -> FALSE

\* Event e is a frame that parses to an object without reserved keys.
CleanFrame(e) ==
    /\ e.kind = "message"
    /\ e.data.ok
    /\ e.data.value.t = "object"
    /\ ~HasReservedKey(e.data.value)

\* Event e is a clean frame asking for `request`, with a string in `field`.
IsRequest(e, request, field) ==
    /\ CleanFrame(e)
    /\ Get(e.data.value.v, "request") = Str(request)
    /\ TypeOf(Get(e.data.value.v, field)) = "string"

\* Some live user of the registry holds the name, case-insensitively.
NameHeld(registry, name) ==
    \E v \in LiveUsers(registry) : lowerCaseName(v) = Str(toLowerCase(name))

\* C6: each user created by an identify request gets a display name that
\* is non-empty and differs case-insensitively from the name of every other
\* live user; when the name asked for was held, the user does not get it.
IdentifyNamesStep ==
    \A u \in LiveUsers(users') :
        (IsRequest(event', "identify", "name") /\ ~MapHas(users.sockets, u.socketId))
           => /\ u.name.v # <<>>
              /\ \A v \in LiveUsers(users') \ {u} : lowerCaseName(v) # lowerCaseName(u)
              /\ NameHeld(users, event'.data.value.v.name.v)
                    => u.name # event'.data.value.v.name

IdentifyNamesUnique == [][IdentifyNamesStep]_vars

\* C6, its case: "alice" is asked for while Alice is live, and the new user
\* is named by generateRandomName.
CollidingIdentify ==
    /\ IsRequest(event, "identify", "name")
    /\ event.data.value.v.name = Str(alice)
    /\ \E u, v \in LiveUsers(users) :
          /\ u.name = Str(Alice)
          /\ v.socketId = Num(event.id)
          /\ v.name = Str(animals[1])

\* C7: a rename to a name that a live user holds leaves the registry, the
\* history and lastSerial unchanged and replies to the caller only; when the
\* holder has the caller's session the reply is the single message "You
\* are already named X."
RenameHeldStep ==
    IsRequest(event', "rename", "text") =>
        LET text == event'.data.value.v.text
            caller == MapGet(users.sockets, Num(event'.id))
            holder == MapGet(users.lowerCaseNames, Str(toLowerCase(text.v)))
        IN  (Len(text.v) <= maxNameLength /\ Truthy(caller) /\ Truthy(holder))
               => /\ users' = users
                  /\ history' = history
                  /\ lastSerial' = lastSerial
                  /\ handed' # <<>>
                  /\ \A i \in DOMAIN handed' : Get(handed'[i], "to") = Num(event'.id)
                  /\ \A i \in DOMAIN sent' : sent'[i].id = event'.id
                  /\ holder.v.sessionId = caller.v.sessionId
                        => /\ Len(handed') = 1
                           /\ Get(handed'[1], "text") =
                                 Str(<<"You are already named ">> \o text.v \o <<".">>)

RenameHeldIsNoOp == [][RenameHeldStep]_vars

\* C7, its case: the caller is told it is already named alice, while
\* another approved connection is there to overhear.
RedundantRename ==
    /\ IsRequest(event, "rename", "text")
    /\ Len(handed) = 1
    /\ Get(handed[1], "text") = Str(<<"You are already named ">> \o alice \o <<".">>)
    /\ Len(sent) = 1
    /\ \E s \in DOMAIN socketInfo : socketInfo[s].canListen /\ socketInfo[s].id # event.id

\* C8: a direct message to a name no live user holds produces exactly one
\* output, "Recipient not found." addressed to the sender's connection only,
\* and changes neither the history nor the registry nor lastSerial.
DirectUnknownStep ==
    (/\ CleanFrame(event')
     /\ "request" \notin DOMAIN event'.data.value.v
     /\ TypeOf(Get(event'.data.value.v, "recipient")) = "string"
     /\ event'.data.value.v.recipient.v # <<>>
     /\ ~NameHeld(users, event'.data.value.v.recipient.v))
        => /\ Len(handed') = 1
           /\ Get(handed'[1], "to") = Num(event'.id)
           /\ Get(handed'[1], "text") = Str(<<"Recipient not found.">>)
           /\ \A i \in DOMAIN sent' : sent'[i].id = event'.id
           /\ Len(sent') = IF socketInfo'[event'.socket].canListen THEN 1 ELSE 0
           /\ history' = history
           /\ users' = users
           /\ lastSerial' = lastSerial

DirectUnknownRepliesOnce == [][DirectUnknownStep]_vars

\* C8, its case: the reply went to the sender while another approved
\* connection is there.
RecipientMissing ==
    /\ CleanFrame(event)
    /\ "recipient" \in DOMAIN event.data.value.v
    /\ Len(sent) = 1
    /\ sent[1].json.text = Str(<<"Recipient not found.">>)
    /\ \E s \in DOMAIN socketInfo : socketInfo[s].canListen /\ socketInfo[s].id # event.id

\* C9: a frame holding a reserved key, at the top level or nested, is
\* dropped: the registry, the history, lastSerial, lastTimestamp and every
\* approval flag are unchanged, nothing is sent, nothing enters the
\* pipeline and the connection stays open; and every message that enters
\* the pipeline from a client carries the connection's id as _sender,
\* _event = transmit and no other reserved key.
ForbiddenStep ==
    (event'.kind = "message" /\ event'.data.ok /\ HasReservedKey(event'.data.value))
        => /\ users' = users
           /\ history' = history
           /\ lastSerial' = lastSerial
           /\ lastTimestamp' = lastTimestamp
           /\ DOMAIN socketInfo' = DOMAIN socketInfo
           /\ \A s \in DOMAIN socketInfo :
                 socketInfo'[s].canListen = socketInfo[s].canListen
           /\ sent' = <<>>
           /\ handed' = <<>>
           /\ entered' = <<>>
           /\ readyState' = readyState

EnteredTagged ==
    \A i \in DOMAIN entered :
        /\ entered[i]._sender = Num(event.id)
        /\ entered[i]._event = Str("transmit")
        /\ ~HasReservedKey(Obj(Del(Del(entered[i], "_sender"), "_event")))

ForbiddenDropped == []EnteredTagged /\ [][ForbiddenStep]_vars

\* C9, its case: a frame whose reserved key is nested arrives while an
\* approved connection is listening.
NestedReservedKey ==
    /\ event.kind = "message"
    /\ event.data.ok
    /\ HasReservedKey(event.data.value)
    /\ DOMAIN event.data.value.v \cap underscoreKeys = {}
    /\ \E s \in DOMAIN socketInfo : socketInfo[s].canListen

\* C10: every message that passes the timestamp stage gets a _time greater
\* than every _time given before, whatever the clock reads: the _time
\* values of the messages handed on for delivery, and of the history
\* records, are strictly increasing.
TimesAscending ==
    /\ \A i \in 1..(Len(handed) - 1) : handed[i]._time.v < handed[i + 1]._time.v
    /\ \A i \in DOMAIN handed : handed[i]._time.v <= lastTimestamp
    /\ \A i \in 1..(Len(history) - 1) : history[i]._time.v < history[i + 1]._time.v
    /\ \A i \in DOMAIN history : history[i]._time.v <= lastTimestamp

TimesAfterEarlier ==
    /\ lastTimestamp' >= lastTimestamp
    /\ \A i \in DOMAIN handed' : handed'[i]._time.v > lastTimestamp

TimestampsStrict == []TimesAscending /\ [][TimesAfterEarlier]_vars

\* C10, its case: two messages of one handler fall into the same tick, and
\* the second is given the next value.
SameTickTwice ==
    \E i \in 1..(Len(handed) - 1) : handed[i + 1]._time.v = handed[i]._time.v + 1

\* A message or record carries neither of the channel's internal keys.
NoInternalKeys(m) == "_sender" \notin DOMAIN m /\ "_remember" \notin DOMAIN m

\* C11: no message handed to the relay's broadcast, and no history record,
\* carries the _sender key or the _remember key; neither does a record
\* inside a history reply.
InternalKeysStripped ==
    /\ \A i \in DOMAIN handed :
          /\ NoInternalKeys(handed[i])
          /\ "history" \in DOMAIN handed[i]
                => \A j \in DOMAIN handed[i].history.v :
                      NoInternalKeys(handed[i].history.v[j])
    /\ \A i \in DOMAIN history : NoInternalKeys(history[i])

\* C11, its case: a history reply with records in it is handed to broadcast
\* after a client's request.
HistoryReplyHanded ==
    /\ IsRequest(event, "history", "request")
    /\ \E i \in DOMAIN handed :
          /\ "history" \in DOMAIN handed[i]
          /\ Len(handed[i].history.v) > 0

\* The identify request of event e meets an identity conflict in the
\* registry: the connection already has a user, or the session token the
\* request gives is held.
IdentityConflict(registry, e) ==
    \/ MapHas(registry.sockets, Num(e.id))
    \/ /\ TypeOf(Get(e.data.value.v, "sid")) = "string"
       /\ MapHas(registry.sessions, e.data.value.v.sid)

\* What the channel does on such a request without a word to the client:
\* the registry and the history stay as they are and nothing escapes.
ConflictLeavesStateStep ==
    (IsRequest(event', "identify", "name") /\ IdentityConflict(users, event'))
       => /\ users' = users
          /\ history' = history
          /\ lastSerial' = lastSerial
          /\ ~crashed'

ConflictLeavesState == [][ConflictLeavesStateStep]_vars

\* C12: an identify request that meets an identity conflict leaves the
\* registry and the history unchanged, does not crash the process, and the
\* requesting client is sent a reply.
ConflictRepliedStep ==
    (IsRequest(event', "identify", "name") /\ IdentityConflict(users, event'))
       => /\ ConflictLeavesStateStep
          /\ \E i \in DOMAIN sent' : sent'[i].id = event'.id

ConflictReplied == [][ConflictRepliedStep]_vars

\* An identify request met an identity conflict and nothing was sent.
ConflictUnanswered ==
    /\ IsRequest(event, "identify", "name")
    /\ MapHas(users.sockets, Num(event.id))
    /\ sent = <<>>
    /\ handed = <<>>

\* C13: after any sequence of constructor, attachRelay and setChannel
\* calls over several channels and relays, the back-references are mutual
\* and one-to-one: c.relay === r if and only if r.channel === c.
MutualBackReferences ==
    \A c \in DOMAIN relay, r \in DOMAIN channel :
        relay[c] = r <=> channel[r] = c

\* The consequence the claim draws: no two channels reference one relay
\* and no two relays reference one channel.
OneToOne ==
    /\ \A c, d \in DOMAIN relay : (relay[c] # NoObject /\ relay[c] = relay[d]) => c = d
    /\ \A r, q \in DOMAIN channel :
          (channel[r] # NoObject /\ channel[r] = channel[q]) => r = q

\* Each open tracked connection has one pending idle timer, the one its
\* info.timeout names.
OnePendingTimer ==
    \A s \in DOMAIN socketInfo :
        readyState[s] = "OPEN" => timers[s] = 1 /\ socketInfo[s].timeout = "pending"

\* A frame of any kind leaves its connection with one pending timer, set by
\* the handler of that frame.
FrameRestartsTimer ==
    event'.kind = "message"
       => /\ timers'[event'.socket] = 1
          /\ socketInfo'[event'.socket].timeout = "pending"

\* A tracked connection gets another frame, or it is closed: by its idle
\* timer, unless its peer leaves first.
IdleForcesClose ==
    \A s \in 0..(MaxConn - 1) :
        (s \in DOMAIN socketInfo)
           ~> (FrameOn(s) \/ (s \in DOMAIN readyState /\ readyState[s] # "OPEN"))

\* A connection that the timer closed has its disconnect processed and is
\* untracked.
ClosingUntracked ==
    \A s \in 0..(MaxConn - 1) :
        (s \in DOMAIN socketInfo /\ readyState[s] = "CLOSING")
           ~> (/\ s \notin DOMAIN socketInfo
               /\ \A i \in DOMAIN sockets : sockets[i] # s
               /\ s \in DOMAIN readyState
               /\ readyState[s] = "CLOSED")

\* C14: every inbound frame, well-formed, malformed or forbidden, restarts
\* the idle timer of its connection and leaves exactly one pending timer per
\* open connection; with fair timers a tracked connection that stops
\* sending frames is eventually force-closed, and then its disconnect event
\* is processed and its tracking state removed.
IdleTimerCloses ==
    /\ []OnePendingTimer
    /\ [][FrameRestartsTimer]_vars
    /\ IdleForcesClose
    /\ ClosingUntracked

\* C14, its case: the close event of a connection whose timer has fired has
\* been handled, and the connection is untracked.
TimedOutAndClosed ==
    /\ event.kind = "close"
    /\ timers[event.socket] = 0
    /\ readyState[event.socket] = "CLOSED"
    /\ event.socket \notin DOMAIN socketInfo
    /\ handed # <<>>

\* C15: an approved rename, one whose target name no live user holds,
\* never loses the caller: when the handler is done the caller is in all
\* three indexes under the new name, with the session token and the
\* connection id it had, its old name is free, and nothing has escaped the
\* handler.
RenameApprovedStep ==
    IsRequest(event', "rename", "text") =>
        LET name == Str(truncateName(event'.data.value.v.text.v))
            caller == MapGet(users.sockets, Num(event'.id))
            renamed == MapGet(users'.sockets, Num(event'.id))
        IN  (Truthy(caller) /\ ~NameHeld(users, name.v))
               => /\ Truthy(renamed)
                  /\ renamed.v = [caller.v EXCEPT !.name = name]
                  /\ MapGet(users'.lowerCaseNames, Str(toLowerCase(name.v))) = renamed
                  /\ MapGet(users'.sessions, caller.v.sessionId) = renamed
                  /\ ~MapHas(users'.lowerCaseNames, lowerCaseName(caller.v))
                  /\ MapSize(users'.sockets) = MapSize(users.sockets)
                  /\ MapSize(users'.lowerCaseNames) = MapSize(users.lowerCaseNames)
                  /\ ~crashed'

RenameKeepsCaller == [][RenameApprovedStep]_vars

\* C15, its case: a rename was approved while another user is registered,
\* and the caller now holds the name it asked for.
ApprovedRename ==
    /\ IsRequest(event, "rename", "text")
    /\ \E i \in DOMAIN handed : Get(handed[i], "_set") = Str("rename")
    /\ MapSize(users.sockets) = 2
    /\ MapGet(users.sockets, Num(event.id)).v.name
          = Str(truncateName(event.data.value.v.text.v))

\* The close of a connection that has a user: the user leaves the three
\* indexes, one record "<name> disconnected." ends the history, the user
\* list that follows is without the name, both go out while the connection
\* is still tracked, and then the connection is untracked.
CloseRegisteredStep ==
    (event'.kind = "close" /\ MapHas(users.sockets, Num(event'.id))) =>
        LET u == MapGet(users.sockets, Num(event'.id)).v
        IN  /\ u \notin LiveUsers(users')
            /\ ~MapHas(users'.lowerCaseNames, lowerCaseName(u))
            /\ ~MapHas(users'.sessions, u.sessionId)
            /\ ~MapHas(users'.sockets, u.socketId)
            /\ lastSerial' = lastSerial + 1
            /\ Serials(history') \ Serials(history) = {lastSerial'}
            /\ history'[Len(history')].text = Str(u.name.v \o <<" disconnected.">>)
            /\ history'[Len(history')]._serial = Num(lastSerial')
            /\ Len(handed') = 2
            /\ handed'[1] = history'[Len(history')]
            /\ Get(handed'[2], "_set") = Str("users")
            /\ ~Includes(handed'[2].value.v, u.name)
            /\ Len(SelectSeq(sent', LAMBDA x : x.id = event'.id)) = 2
            /\ event'.socket \notin DOMAIN socketInfo'
            /\ \A i \in DOMAIN sockets' : sockets'[i] # event'.socket
            /\ ~crashed'

\* An identify request of a connection without a user, for a name and a
\* session token that nobody holds, claims both.
ClaimFreeStep ==
    IsRequest(event', "identify", "sid") =>
        LET m == event'.data.value.v
        IN  (/\ TypeOf(Get(m, "name")) = "string"
             /\ m.name.v # <<>>
             /\ ~NameHeld(users, truncateName(m.name.v))
             /\ ~MapHas(users.sessions, m.sid)
             /\ ~MapHas(users.sockets, Num(event'.id)))
               => /\ MapHas(users'.sockets, Num(event'.id))
                  /\ MapGet(users'.sockets, Num(event'.id)).v =
                        [socketId |-> Num(event'.id), sessionId |-> m.sid,
                         name |-> Str(truncateName(m.name.v))]

\* C16: when a connection with a registered user closes, the disconnect
\* event removes the user from all three indexes, appends exactly one
\* "<name> disconnected." record, re-broadcasts a user list without the
\* name, and then the connection is untracked; afterwards the freed name
\* and session token can be claimed by a new identify.
CloseFreesUser == [][CloseRegisteredStep /\ ClaimFreeStep]_vars

\* C16, its case: Alice has disconnected, and a later connection has
\* identified as Alice with Alice's session token.
NameClaimedAgain ==
    /\ IsRequest(event, "identify", "sid")
    /\ \E i \in DOMAIN history :
          history[i].text = Str(Alice \o <<" disconnected.">>)
    /\ MapHas(users.sockets, Num(event.id))
    /\ MapGet(users.sockets, Num(event.id)).v.name = Str(Alice)
    /\ MapGet(users.sockets, Num(event.id)).v.sessionId = Str("s1")

\* C17: the close of a connection that never registered a user appends
\* nothing to the history, does not advance lastSerial and evicts no
\* history record.
CloseUnregisteredStep ==
    (event'.kind = "close" /\ ~MapHas(users.sockets, Num(event'.id)))
       => /\ history' = history
          /\ lastSerial' = lastSerial

CloseUnregisteredSilent == [][CloseUnregisteredStep]_vars

\* C17 as the code has it: the close of a connection without a user is
\* announced like any other.  The registry stays as it is, one record
\* "Unknown user disconnected." with the next serial number ends the
\* history, and the user list is broadcast again.
CloseUnregisteredAnnouncedStep ==
    (event'.kind = "close" /\ ~MapHas(users.sockets, Num(event'.id)))
       => /\ users' = users
          /\ lastSerial' = lastSerial + 1
          /\ Serials(history') \ Serials(history) = {lastSerial'}
          /\ history'[Len(history')].text = Str(<<"Unknown user", " disconnected.">>)
          /\ history'[Len(history')]._serial = Num(lastSerial')
          /\ Len(handed') = 2
          /\ handed'[1] = history'[Len(history')]
          /\ Get(handed'[2], "_set") = Str("users")
          /\ ~crashed'

CloseUnregisteredAnnounced == [][CloseUnregisteredAnnouncedStep]_vars

\* C17, its case: a connection that has no user was closed, the history
\* got a record about an unknown user, and the records it held before have
\* been evicted.
UnknownUserRecorded ==
    /\ event.kind = "close"
    /\ Len(history) = 1
    /\ lastSerial > maxHistory
    /\ history[1].text = Str(<<"Unknown user", " disconnected.">>)

\* Event e is a clean frame without a request, addressed to the name of a
\* live user of the registry.
IsDirect(registry, e) ==
    /\ CleanFrame(e)
    /\ "request" \notin DOMAIN e.data.value.v
    /\ TypeOf(Get(e.data.value.v, "recipient")) = "string"
    /\ e.data.value.v.recipient.v # <<>>
    /\ NameHeld(registry, e.data.value.v.recipient.v)

\* The user a direct frame is addressed to.
Recipient(registry, e) ==
    MapGet(registry.lowerCaseNames, Str(toLowerCase(e.data.value.v.recipient.v))).v

\* The send() calls among `sends` that went to connection id.
SentTo(sends, id) == SelectSeq(sends, LAMBDA x : x.id = id)

\* A direct message stays private: it is sent to nobody but its recipient
\* and its sender, it is not remembered, and whatever is handed to
\* broadcast for it is addressed.
DirectPrivateStep ==
    IsDirect(users, event')
       => /\ \A i \in DOMAIN sent' :
                sent'[i].id \in {Recipient(users, event').socketId.v, event'.id}
          /\ \A i \in DOMAIN handed' :
                "to" \in DOMAIN handed'[i] /\ "_serial" \notin DOMAIN handed'[i]
          /\ history' = history
          /\ lastSerial' = lastSerial
          /\ users' = users

\* A direct message is delivered: once to its recipient and, when the
\* sender is another connection, once more to the sender.
DirectDeliveredStep ==
    IsDirect(users, event')
       => LET whom == Recipient(users, event').socketId.v
          IN  /\ Len(SentTo(sent', whom)) = 1
              /\ Len(SentTo(sent', event'.id)) = 1
              /\ Len(sent') = IF whom = event'.id THEN 1 ELSE 2
              /\ \A i \in DOMAIN sent' :
                    Get(sent'[i].json, "text") = Get(event'.data.value.v, "text")

DirectFromUserStep ==
    IsDirect(users, event')
       => /\ DirectPrivateStep
          /\ MapHas(users.sockets, Num(event'.id)) => DirectDeliveredStep
          /\ ~MapHas(users.sockets, Num(event'.id)) => sent' = <<>> /\ handed' = <<>>
          /\ ~crashed'

DirectToSelf ==
    /\ IsDirect(users, event)
    /\ Recipient(users, event).socketId = Num(event.id)
    /\ Len(sent) = 1
    /\ \E s \in DOMAIN socketInfo :
          socketInfo[s].canListen /\ socketInfo[s].id # event.id

\* Event e is an ordinary frame: text that is no object, or an object that
\* the relay passes on as a transmit event and that names no request and no
\* recipient.
IsOrdinary(e) ==
    /\ e.kind = "message"
    /\ e.data.ok
    /\ \/ e.data.value.t = "string"
       \/ /\ CleanFrame(e)
          /\ ~containsForbiddenFields(e.data.value, 0)
          /\ "request" \notin DOMAIN e.data.value.v
          /\ "recipient" \notin DOMAIN e.data.value.v

\* The ids of the approved connections.
Approved(info) == {info[s].id : s \in {x \in DOMAIN info : info[x].canListen}}

\* An ordinary frame of a connection with a user makes one history record
\* and one broadcast, both under the sender's registered name.
TransmitRecordedStep ==
    (IsOrdinary(event') /\ MapHas(users.sockets, Num(event'.id)))
       => LET name == MapGet(users.sockets, Num(event'.id)).v.name
          IN  /\ lastSerial' = lastSerial + 1
              /\ Serials(history') \ Serials(history) = {lastSerial'}
              /\ history'[Len(history')]._serial = Num(lastSerial')
              /\ history'[Len(history')].name = name
              /\ Len(handed') = 1
              /\ handed'[1]._serial = Num(lastSerial')
              /\ handed'[1].name = name

TransmitRecorded == [][TransmitRecordedStep]_vars

\* An ordinary frame of a connection with a user is sent once to every
\* approved connection.
TransmitToAllStep ==
    (IsOrdinary(event') /\ MapHas(users.sockets, Num(event'.id)))
       => /\ {sent'[i].id : i \in DOMAIN sent'} = Approved(socketInfo)
          /\ Len(sent') = Cardinality(Approved(socketInfo))

\* C19: every ordinary transmit frame, one with no request and no
\* recipient, from a connection with a registered user yields exactly one
\* new history record and one broadcast, both carrying the sender's
\* registered name whatever name the client supplied, and the message is
\* delivered to every approved connection.
TransmitBroadcast == [][TransmitRecordedStep /\ TransmitToAllStep]_vars

\* An ordinary frame carrying `to` was recorded, and an approved connection
\* did not get it.
TransmitAddressed ==
    /\ IsOrdinary(event)
    /\ MapHas(users.sockets, Num(event.id))
    /\ Len(handed) = 1
    /\ "to" \in DOMAIN handed[1]
    /\ \E id \in Approved(socketInfo) : \A i \in DOMAIN sent : sent[i].id # id

\* The same without `to` in the frame: the frame reaches every approved
\* connection.
TransmitUnaddressedStep ==
    "to" \notin DOMAIN event'.data.value.v => TransmitToAllStep

TransmitUnaddressed ==
    [][(IsOrdinary(event') /\ event'.data.value.t = "object")
          => TransmitUnaddressedStep]_vars

\* Each user of the registry, in whichever index it is found, belongs to a
\* connection that the relay tracks, that is not closed, and that is
\* approved.
UsersTracked ==
    /\ \A u \in LiveUsers(users) :
          \E i \in DOMAIN sockets :
             /\ sockets[i] \in DOMAIN socketInfo
             /\ Num(socketInfo[sockets[i]].id) = u.socketId
             /\ socketInfo[sockets[i]].canListen
             /\ readyState[sockets[i]] # "CLOSED"
    /\ MapKeys(users.sockets) \subseteq {Num(id) : id \in Approved(socketInfo)}

\* No user record is left of a connection once its close event is handled.
CloseLeavesNoUser ==
    event'.kind = "close"
       => \A u \in LiveUsers(users') : u.socketId # Num(event'.id)

\* C20: between message-processing steps each user in the registry belongs
\* to a connection that the relay tracks and has approved: the connection
\* ids of the sockets index are ids of live approved connections, and no
\* user record outlives the handling of its connection's close event.
UsersBelongToApproved == []UsersTracked /\ [][CloseLeavesNoUser]_vars

\* C20, its case: of two users one has left with its connection, and the
\* other is still registered.
OneUserLeft ==
    /\ event.kind = "close"
    /\ MapSize(users.sockets) = 1
    /\ history # <<>>
    /\ \E n \in {Alice, alice} :
          history[Len(history)].text = Str(n \o <<" disconnected.">>)

\* C21: in every reachable state every user in the registry has a
\* non-empty display name, whatever identify and rename requests, a rename
\* to the empty string among them, produced it.
NamesNonEmpty ==
    \A u \in LiveUsers(users) : u.name.v # <<>>

\* A rename to the empty string was approved, and the caller is now
\* registered under the empty name.
RenamedToBlank ==
    /\ IsRequest(event, "rename", "text")
    /\ event.data.value.v.text = Str(<<>>)
    /\ MapHas(users.lowerCaseNames, Str(<<>>))
    /\ \E i \in DOMAIN handed : Get(handed[i], "_set") = Str("rename")

\* Identify on its own gives no user the empty name.
IdentifyNamesNonEmptyStep ==
    event'.kind = "message" /\ ~IsRequest(event', "rename", "text")
       => (NamesNonEmpty => NamesNonEmpty')

IdentifyNamesNonEmpty == [][IdentifyNamesNonEmptyStep]_vars

\* The send() calls of a close handler that went to the closing connection.
SentToClosing == SentTo(sent, event.id)

\* C22: once the close event of a connection has fired, send is not called
\* on that connection again: what the disconnect event makes the channel
\* say goes to the other approved connections only.
ClosedNeverSentTo ==
    /\ \A i \in DOMAIN sent : readyState[sent[i].socket] # "CLOSED"
    /\ event.kind = "close" => SentToClosing = <<>>

\* A connection with a user was closed, and the departure announcement and
\* the user list were sent to it.
ClosingToldOfItself ==
    /\ event.kind = "close"
    /\ Len(SentToClosing) = 2
    /\ readyState[event.socket] = "CLOSED"
    /\ Get(SentToClosing[2].json, "_set") = Str("users")

\* Once the close handler has returned, nothing more is sent to the
\* connection.
NoSendOnceUntracked ==
    event.kind # "close"
       => \A i \in DOMAIN sent : readyState[sent[i].socket] # "CLOSED"


=============================================================================
